---- MODULE Spec2Model ----
(***************************************************************************)
(* A model of the AI web scraper (src/ai_web_scraper.py): the URL          *)
(* normalizer, the crawl loop of AIWebScraper.scrape_website with its      *)
(* checkpoint file, the per-language buckets filled by save_page_content   *)
(* and the ordering of the per-language documents.                         *)
(*                                                                         *)
(* A URL string is a sequence of tokens.  Every token is one character,    *)
(* except the scheme ("https"), the host name ("h", "x") and the percent   *)
(* escapes ("%2F", "%3D", "%3F"), which are one token each.                *)
(***************************************************************************)
EXTENDS Integers, Sequences, FiniteSets, TLC

VARIABLES
    \* ---- the normalizer, applied to drawn inputs ----
    url_a,          \* input URL
    url_b,          \* the same URL with its query pieces in another order
    url_s,          \* the same URL with a '/' appended to its path
    norm_a,         \* normalize_url(url_a)
    norm_b,         \* normalize_url(url_b)
    norm_s,         \* normalize_url(url_s)
    renorm_a,       \* normalize_url(normalize_url(url_a))
    norm_pc,        \* "init" | "normalized" | "renormalized" | "off"
    \* ---- the oracle, asked about drawn texts ----
    oracle_content,     \* the text given to analyze_content_with_ai
    openai_client,      \* self.openai_client: "client" or Null
    oracle_reply,       \* what the completion call does
    oracle_analysis,    \* what analyze_content_with_ai returns
    oracle_pc,          \* "init" | "analyzed" | "off"
    \* ---- the scraper's buckets and the files it writes ----
    multilingual_content,   \* self.multilingual_content: language -> list of items
    saved_pages,            \* the page files written to output_dir, in order
    txt_output,             \* final_output/..._<language>.txt
    pdf_output,             \* final_output/..._<language>.pdf
    has_reportlab,          \* HAS_REPORTLAB
    outputs_generated,      \* generate_multilingual_outputs has run
    \* ---- the crawl: the scraper object, scrape_website and its files ----
    site,                   \* the web site being crawled (an index of Sites)
    max_pages,              \* scrape_website(max_pages, ...)
    batch_size,             \* scrape_website(..., batch_size)
    robot_parser,           \* self.robot_parser: "loaded" or Null
    visited_urls,           \* self.visited_urls
    failed_urls,            \* self.failed_urls
    urls_to_visit,          \* the pending queue of scrape_website
    pages_scraped,
    batch_count,
    progress_file,          \* output_dir/scraping_progress.json
    summary_file,           \* output_dir/ai_scraping_summary.json
    pc,                     \* where the process is
    runs,                   \* processes started so far
    resumed,                \* this run loaded a progress file
    loaded_progress,        \* the progress file as this run loaded it
    fetch_log,              \* the get_page_content calls of this run, with outcome
    skipped_pops,           \* the URLs this run popped and found visited
    sleeps,                 \* the time.sleep calls of this run, in milliseconds
    faults,                 \* requests and file writes that have failed so far
    progress_errors,        \* the _save_progress calls that have raised so far
    uninterrupted           \* the CrawlState a run stopped on a checkpoint would have now

norm_vars == <<url_a, url_b, url_s, norm_a, norm_b, norm_s, renorm_a, norm_pc>>
doc_vars == <<multilingual_content, saved_pages, txt_output, pdf_output,
              has_reportlab, outputs_generated>>
crawl_vars == <<site, max_pages, batch_size, robot_parser, visited_urls,
                failed_urls, urls_to_visit, pages_scraped, batch_count,
                progress_file, summary_file, pc, runs, resumed,
                loaded_progress, fetch_log, skipped_pops, sleeps, faults,
                progress_errors, uninterrupted>>
oracle_vars == <<oracle_content, openai_client, oracle_reply, oracle_analysis,
                 oracle_pc>>
vars == <<norm_vars, oracle_vars, doc_vars, crawl_vars>>

(***************************************************************************)
(* Bounds                                                                  *)
(***************************************************************************)
MaxPathLen == 3
MaxQueryLen == 3
MaxPairs == 3
MaxFilings == 3
MaxPages == 6
MaxBatch == 2
MaxRuns == 2
MaxFaults == 1
MaxTextLen == 203

(***************************************************************************)
(* Strings                                                                 *)
(***************************************************************************)
Null == "<none>"

Letters ==
    <<"a", "b", "c", "d", "e", "f", "g", "h", "i", "j", "k", "l", "m",
      "n", "o", "p", "q", "r", "s", "t", "u", "v", "w", "x", "y", "z">>

\* ord() of a character
CharCode(c) ==
    IF \E i \in 1..26 : Letters[i] = c
    THEN 96 + (CHOOSE i \in 1..26 : Letters[i] = c)
    ELSE CASE c = "#" -> 35
           [] c = "&" -> 38
           [] c = "/" -> 47
           [] c = "1" -> 49
           [] c = "2" -> 50
           [] c = ":" -> 58
           [] c = "=" -> 61
           [] c = "?" -> 63
           [] OTHER -> 0

\* Python's str < str: lexicographic by code point
RECURSIVE StrLess(_, _)
StrLess(s, t) ==
    IF t = <<>> THEN FALSE
    ELSE IF s = <<>> THEN TRUE
    ELSE IF CharCode(Head(s)) < CharCode(Head(t)) THEN TRUE
    ELSE IF CharCode(Head(s)) > CharCode(Head(t)) THEN FALSE
    ELSE StrLess(Tail(s), Tail(t))

\* str.find over a set of characters: the first index holding one of them,
\* Len(s) + 1 when there is none
IndexOf(s, chars) ==
    IF \E i \in 1..Len(s) : s[i] \in chars
    THEN CHOOSE i \in 1..Len(s) :
            s[i] \in chars /\ \A j \in 1..(i - 1) : s[j] \notin chars
    ELSE Len(s) + 1

\* str.split(sep)
RECURSIVE Split(_, _)
Split(s, sep) ==
    LET i == IndexOf(s, {sep})
    IN  IF i > Len(s) THEN <<s>>
        ELSE <<SubSeq(s, 1, i - 1)>> \o Split(SubSeq(s, i + 1, Len(s)), sep)

\* sep.join(pieces)
RECURSIVE Join(_, _)
Join(pieces, sep) ==
    IF pieces = <<>> THEN <<>>
    ELSE IF Len(pieces) = 1 THEN pieces[1]
    ELSE pieces[1] \o <<sep>> \o Join(Tail(pieces), sep)

Range(seq) == {seq[i] : i \in 1..Len(seq)}

\* str.count(c)
Count(s, c) == Cardinality({i \in 1..Len(s) : s[i] = c})

(***************************************************************************)
(* urllib.parse as normalize_url uses it                                   *)
(***************************************************************************)
\* urlparse(url) for a URL of the form scheme://netloc[path][?query][#fragment]
urlparse(url) ==
    LET rest     == SubSeq(url, 5, Len(url))
        n        == IndexOf(rest, {"/", "?", "#"})
        after    == SubSeq(rest, n, Len(rest))
        f        == IndexOf(after, {"#"})
        nofrag   == SubSeq(after, 1, f - 1)
        q        == IndexOf(nofrag, {"?"})
    IN  [scheme   |-> url[1],
         netloc   |-> SubSeq(rest, 1, n - 1),
         path     |-> SubSeq(nofrag, 1, q - 1),
         query    |-> SubSeq(nofrag, q + 1, Len(nofrag)),
         fragment |-> SubSeq(after, f + 1, Len(after))]

\* unquote: a percent escape decodes to its character
unquote(s) ==
    [i \in 1..Len(s) |->
        CASE s[i] = "%2F" -> "/"
          [] s[i] = "%3D" -> "="
          [] s[i] = "%3F" -> "?"
          [] OTHER -> s[i]]

\* quote_plus: every character outside [A-Za-z0-9_.-~] is percent-escaped
quote_plus(s) ==
    [i \in 1..Len(s) |->
        CASE s[i] = "/" -> "%2F"
          [] s[i] = "=" -> "%3D"
          [] s[i] = "?" -> "%3F"
          [] OTHER -> s[i]]

\* parse_qsl(qs, keep_blank_values=True): empty pieces are skipped, a piece
\* is split at its first '=', a piece without '=' has the value ''
parse_qsl(qs) ==
    LET pieces == SelectSeq(Split(qs, "&"), LAMBDA p : p # <<>>)
    IN  [i \in 1..Len(pieces) |->
            LET e == IndexOf(pieces[i], {"="})
            IN  [name  |-> unquote(SubSeq(pieces[i], 1, e - 1)),
                 value |-> unquote(SubSeq(pieces[i], e + 1, Len(pieces[i])))]]

\* parse_qs: a dict key -> list of values, in order of first appearance
RECURSIVE GroupPairs(_, _)
GroupPairs(pairs, d) ==
    IF pairs = <<>> THEN d
    ELSE LET p == Head(pairs)
         IN  IF \E i \in 1..Len(d) : d[i].key = p.name
             THEN GroupPairs(Tail(pairs),
                    [i \in 1..Len(d) |->
                        IF d[i].key = p.name
                        THEN [d[i] EXCEPT !.values = Append(@, p.value)]
                        ELSE d[i]])
             ELSE GroupPairs(Tail(pairs),
                    Append(d, [key |-> p.name, values |-> <<p.value>>]))

parse_qs(qs) == GroupPairs(parse_qsl(qs), <<>>)

\* sorted(query_params.items()): the keys of a dict are distinct, so the
\* items are ordered by key alone
RECURSIVE InsertItem(_, _)
InsertItem(sorted, item) ==
    IF sorted = <<>> THEN <<item>>
    ELSE IF StrLess(item.key, Head(sorted).key) THEN <<item>> \o sorted
    ELSE <<Head(sorted)>> \o InsertItem(Tail(sorted), item)

\* a normalizer that forgets to sort: the items stay in dict order
SortedItems_unsorted(items) == items

RECURSIVE SortedItems(_)
SortedItems(items) ==
    IF items = <<>> THEN <<>>
    ELSE InsertItem(SortedItems(SubSeq(items, 1, Len(items) - 1)),
                    items[Len(items)])

\* urlencode(items, doseq=True): key=value for every value of every key
RECURSIVE EncodeValues(_, _)
EncodeValues(key, values) ==
    IF values = <<>> THEN <<>>
    ELSE <<quote_plus(key) \o <<"=">> \o quote_plus(Head(values))>>
         \o EncodeValues(key, Tail(values))

RECURSIVE EncodeItems(_)
EncodeItems(items) ==
    IF items = <<>> THEN <<>>
    ELSE EncodeValues(Head(items).key, Head(items).values)
         \o EncodeItems(Tail(items))

urlencode(items) == Join(EncodeItems(items), "&")

(***************************************************************************)
(* AIWebScraper.normalize_url                                              *)
(***************************************************************************)
normalize_url(url) ==
    LET parsed  == urlparse(url)
        plain   == <<parsed.scheme, ":", "/", "/">> \o parsed.netloc \o parsed.path
        withq   == IF parsed.query # <<>>
                   THEN plain \o <<"?">>
                        \o urlencode(SortedItems(parse_qs(parsed.query)))
                   ELSE plain
    IN  IF withq[Len(withq)] = "/" /\ Count(withq, "/") > 3
        THEN SubSeq(withq, 1, Len(withq) - 1)
        ELSE withq

(***************************************************************************)
(* AIWebScraper.save_page_content: the per-language buckets                *)
(*                                                                         *)
(* An item of a bucket is the page's ai_analysis: its url and the          *)
(* language, importance_score and category keys, Null for a key the        *)
(* oracle's JSON does not have.  A category is a string of letters.        *)
(***************************************************************************)
LanguageNames == {"english", "french", "portuguese"}

\* a key the analysis does not have: Null for a language, NoScore for an
\* importance score, NoCategory for a category
NoScore == -1
NoCategory == <<Null>>

\* analysis.get('language', default), .get('importance_score', default)
\* and .get('category', default)
GetLanguage(item, default) == IF item.language = Null THEN default ELSE item.language
GetScore(item, default) ==
    IF item.importance_score = NoScore THEN default ELSE item.importance_score
GetCategory(item, default) ==
    IF item.category = NoCategory THEN default ELSE item.category

\* lines 436-451: a recognized language files the item in its bucket, mixed
\* files it in every bucket, anything else files it nowhere
FileItem_mixed_into_english(content, item) ==
    LET language == GetLanguage(item, "unknown")
    IN  IF language \in DOMAIN content
        THEN [content EXCEPT ![language] = Append(@, item)]
        ELSE IF language = "mixed"
        THEN [content EXCEPT !["english"] = Append(@, item)]
        ELSE content

FileItem(content, item) ==
    LET language == GetLanguage(item, "unknown")
    IN  IF language \in DOMAIN content
        THEN [content EXCEPT ![language] = Append(@, item)]
        ELSE IF language = "mixed"
        THEN [lang \in DOMAIN content |-> Append(content[lang], item)]
        ELSE content

\* save_page_content: write the page file, then file the item
save_page_content(ai_analysis) ==
    /\ saved_pages' = Append(saved_pages, ai_analysis)
    /\ multilingual_content' = FileItem(multilingual_content, ai_analysis)

(***************************************************************************)
(* AIWebScraper._generate_language_txt / _generate_language_pdf            *)
(***************************************************************************)
Zzz == <<"z", "z", "z">>
General == <<"g", "e", "n", "e", "r", "a", "l">>
DefaultScore == 5

\* the sort key: (importance_score or 5, category or 'zzz')
SortKey(item) ==
    [score    |-> GetScore(item, DefaultScore),
     category |-> GetCategory(item, Zzz)]

\* tuple comparison: the scores first, the categories on equal scores
KeyLess(k1, k2) ==
    \/ k1.score < k2.score
    \/ k1.score = k2.score /\ StrLess(k1.category, k2.category)

\* sorted(..., reverse=True) is stable: an item goes behind every item whose
\* key is not smaller than its own
RECURSIVE InsertDescending(_, _)
InsertDescending(sorted, item) ==
    IF sorted = <<>> THEN <<item>>
    ELSE IF KeyLess(SortKey(Head(sorted)), SortKey(item)) THEN <<item>> \o sorted
    ELSE <<Head(sorted)>> \o InsertDescending(Tail(sorted), item)

\* a sort that looks at the score only
RECURSIVE InsertByScore(_, _)
InsertByScore(sorted, item) ==
    IF sorted = <<>> THEN <<item>>
    ELSE IF SortKey(Head(sorted)).score < SortKey(item).score THEN <<item>> \o sorted
    ELSE <<Head(sorted)>> \o InsertByScore(Tail(sorted), item)

RECURSIVE SortedByScore(_)
SortedByScore(content_list) ==
    IF content_list = <<>> THEN <<>>
    ELSE InsertByScore(SortedByScore(SubSeq(content_list, 1, Len(content_list) - 1)),
                       content_list[Len(content_list)])

\* a sort without reverse=True
RECURSIVE InsertAscending(_, _)
InsertAscending(sorted, item) ==
    IF sorted = <<>> THEN <<item>>
    ELSE IF KeyLess(SortKey(item), SortKey(Head(sorted))) THEN <<item>> \o sorted
    ELSE <<Head(sorted)>> \o InsertAscending(Tail(sorted), item)

RECURSIVE SortedAscending(_)
SortedAscending(content_list) ==
    IF content_list = <<>> THEN <<>>
    ELSE InsertAscending(SortedAscending(SubSeq(content_list, 1, Len(content_list) - 1)),
                         content_list[Len(content_list)])

RECURSIVE SortedContent(_)
SortedContent(content_list) ==
    IF content_list = <<>> THEN <<>>
    ELSE InsertDescending(SortedContent(SubSeq(content_list, 1, Len(content_list) - 1)),
                          content_list[Len(content_list)])

\* the table of contents line and the page header of an item, as printed
TocLine(item) ==
    [title    |-> item.url,
     category |-> GetCategory(item, General),
     score    |-> GetScore(item, DefaultScore)]

PageSection(item) ==
    [url      |-> item.url,
     category |-> GetCategory(item, General),
     language |-> GetLanguage(item, "unknown"),
     score    |-> GetScore(item, DefaultScore)]

\* a document file that does not exist
NoDocument == [exists |-> FALSE, toc |-> <<>>, sections |-> <<>>]

\* lines 612-695: the table of contents and the pages, both in sorted order
generate_language_txt(content_list) ==
    LET sorted_content == SortedContent(content_list)
    IN  [exists   |-> TRUE,
         toc      |-> [i \in 1..Len(sorted_content) |-> TocLine(sorted_content[i])],
         sections |-> [i \in 1..Len(sorted_content) |-> PageSection(sorted_content[i])]]

\* lines 701-816: the PDF sorts the bucket again, with the same key
generate_language_pdf(content_list) ==
    LET sorted_content == SortedContent(content_list)
    IN  [exists   |-> TRUE,
         toc      |-> [i \in 1..Len(sorted_content) |-> TocLine(sorted_content[i])],
         sections |-> [i \in 1..Len(sorted_content) |-> PageSection(sorted_content[i])]]

\* lines 583-610: an empty bucket is skipped and its files are left alone
generate_multilingual_outputs ==
    /\ txt_output' =
          [lang \in LanguageNames |->
              IF multilingual_content[lang] = <<>> THEN txt_output[lang]
              ELSE generate_language_txt(multilingual_content[lang])]
    /\ pdf_output' =
          [lang \in LanguageNames |->
              IF multilingual_content[lang] = <<>> \/ ~has_reportlab
              THEN pdf_output[lang]
              ELSE generate_language_pdf(multilingual_content[lang])]
    /\ outputs_generated' = TRUE

(***************************************************************************)
(* AIWebScraper.analyze_content_with_ai                                    *)
(***************************************************************************)
SummaryLimit == 200
Ellipsis == <<".", ".", ".">>

\* a summary that is cut without the ellipsis
Summarize_no_ellipsis(content) ==
    IF Len(content) > SummaryLimit THEN SubSeq(content, 1, SummaryLimit) ELSE content

\* content[:200] + "..." if len(content) > 200 else content
Summarize(content) ==
    IF Len(content) > SummaryLimit
    THEN SubSeq(content, 1, SummaryLimit) \o Ellipsis
    ELSE content

\* lines 144-150 and 186-192
DefaultAnalysis(content) ==
    [language |-> "unknown", category |-> General, summary |-> Summarize(content),
     keywords |-> <<>>, importance_score |-> DefaultScore]

\* the summary and the keywords of an object the oracle answers with
ObjectSummary == <<"s">>
ObjectKeywords == <<"k">>

\* lines 143-192: without a client, and when the call raises, json.loads
\* raises, or the parsed value has no .get (line 180), the default analysis
\* is returned; a parsed object is returned as it is
analyze_content_with_ai(content, client, reply) ==
    IF client = Null THEN DefaultAnalysis(content)
    ELSE IF reply.kind # "object" THEN DefaultAnalysis(content)
    ELSE [language |-> reply.answer.language, category |-> reply.answer.category,
          summary |-> ObjectSummary, keywords |-> ObjectKeywords,
          importance_score |-> reply.answer.importance_score]

(***************************************************************************)
(* The files of output_dir and a scraper that is not running               *)
(***************************************************************************)
\* no scraping_progress.json
NoProgress ==
    [exists |-> FALSE, visited_urls |-> {}, urls_to_visit |-> <<>>,
     pages_scraped |-> 0,
     multilingual_stats |-> [lang \in LanguageNames |-> 0]]

\* no ai_scraping_summary.json
NoSummary ==
    [exists |-> FALSE, total_pages_scraped |-> 0, failed_urls |-> <<>>,
     scraped_urls |-> {}]

\* no run was stopped on a checkpoint
NoReference ==
    [tracked |-> FALSE, visited_urls |-> {}, urls_to_visit |-> <<>>,
     pages_scraped |-> 0, failed_urls |-> <<>>]

CrawlIdle ==
    /\ site = 1
    /\ max_pages = 1
    /\ batch_size = 1
    /\ robot_parser = Null
    /\ visited_urls = {}
    /\ failed_urls = <<>>
    /\ urls_to_visit = <<>>
    /\ pages_scraped = 0
    /\ batch_count = 0
    /\ progress_file = NoProgress
    /\ summary_file = NoSummary
    /\ pc = "off"
    /\ runs = 0
    /\ resumed = FALSE
    /\ loaded_progress = NoProgress
    /\ fetch_log = <<>>
    /\ skipped_pops = {}
    /\ sleeps = <<>>
    /\ faults = 0
    /\ progress_errors = 0
    /\ uninterrupted = NoReference

(***************************************************************************)
(* The buckets and the documents on drawn page analyses                    *)
(***************************************************************************)
Gallery == <<"g", "a", "l", "l", "e", "r", "y">>
Tourism == <<"t", "o", "u", "r", "i", "s", "m">>
News == <<"n", "e", "w", "s">>

\* analyze_content_with_ai, lines 143-150 and 184-192: the default analysis
DefaultAnswer ==
    [language |-> "unknown", importance_score |-> DefaultScore, category |-> General]

\* what the oracle may say about a page
OracleAnswers ==
    {[language |-> "english", importance_score |-> 3, category |-> Gallery],
     [language |-> "english", importance_score |-> 9, category |-> Gallery],
     [language |-> "english", importance_score |-> 9, category |-> Tourism],
     [language |-> "mixed", importance_score |-> 9, category |-> Gallery],
     [language |-> "unknown", importance_score |-> DefaultScore, category |-> General],
     [language |-> "french", importance_score |-> 9, category |-> Tourism],
     [language |-> "portuguese", importance_score |-> 3, category |-> News],
     [language |-> "german", importance_score |-> 9, category |-> Gallery],
     [language |-> Null, importance_score |-> 9, category |-> News],
     [language |-> "english", importance_score |-> 9, category |-> NoCategory],
     [language |-> "english", importance_score |-> NoScore, category |-> News]}

Analysis(url, answer) ==
    [url |-> url, language |-> answer.language,
     importance_score |-> answer.importance_score, category |-> answer.category]

\* AIWebScraper.__init__, lines 74-78
BucketsInit ==
    /\ multilingual_content = [lang \in LanguageNames |-> <<>>]
    /\ saved_pages = <<>>
    /\ txt_output = [lang \in LanguageNames |-> NoDocument]
    /\ pdf_output = [lang \in LanguageNames |-> NoDocument]
    /\ outputs_generated = FALSE

NormIdle ==
    /\ url_a = <<>>
    /\ url_b = <<>>
    /\ url_s = <<>>
    /\ norm_a = <<>>
    /\ norm_b = <<>>
    /\ norm_s = <<>>
    /\ renorm_a = <<>>
    /\ norm_pc = "off"

\* what the completion call can do: raise, answer with text that is not
\* JSON, answer with JSON that is not an object, or answer with an object
OracleReplies ==
    [kind : {"raises", "unparseable", "not_object"}, answer : {DefaultAnswer}]
    \cup [kind : {"object"}, answer : OracleAnswers]

NoReply == [kind |-> "raises", answer |-> DefaultAnswer]

NoAnalysis ==
    [language |-> Null, category |-> NoCategory, summary |-> <<>>,
     keywords |-> <<>>, importance_score |-> NoScore]

OracleIdle ==
    /\ oracle_content = <<>>
    /\ openai_client = Null
    /\ oracle_reply = NoReply
    /\ oracle_analysis = NoAnalysis
    /\ oracle_pc = "off"

DocInit ==
    /\ BucketsInit
    /\ has_reportlab \in BOOLEAN
    /\ NormIdle
    /\ OracleIdle
    /\ CrawlIdle

\* the n-th page of a run is filed with whatever the oracle said about it
DocSavePage ==
    /\ ~outputs_generated
    /\ Len(saved_pages) < MaxFilings
    /\ \E answer \in OracleAnswers :
          save_page_content(Analysis(Len(saved_pages) + 1, answer))
    /\ UNCHANGED <<txt_output, pdf_output, has_reportlab, outputs_generated>>
    /\ UNCHANGED <<norm_vars, oracle_vars, crawl_vars>>

\* scrape_website, lines 530-531
DocGenerate ==
    /\ ~outputs_generated
    /\ Len(saved_pages) > 0
    /\ generate_multilingual_outputs
    /\ UNCHANGED <<multilingual_content, saved_pages, has_reportlab>>
    /\ UNCHANGED <<norm_vars, oracle_vars, crawl_vars>>

DocNext == DocSavePage \/ DocGenerate

SpecDoc == DocInit /\ [][DocNext]_vars

(***************************************************************************)
(* The web sites                                                           *)
(*                                                                         *)
(* A site has a base URL, the hrefs of every page (absolute, as urljoin    *)
(* returns them, or of a scheme that is not fetched), what the oracle says *)
(* about every page, the URLs its robots.txt disallows and whether         *)
(* robots.txt can be read.                                                 *)
(***************************************************************************)
UrlPrefix == <<"https", ":", "/", "/", "h">>

Url(path) == UrlPrefix \o path

Root == Url(<<"/">>)
PageA == Url(<<"/", "a">>)
PageASlash == Url(<<"/", "a", "/">>)
PageB == Url(<<"/", "b">>)
PageC == Url(<<"/", "c">>)
PageD == Url(<<"/", "d">>)
PageE == Url(<<"/", "e">>)
OtherHost == <<"https", ":", "/", "/", "x", "/">>
MailTo == <<"mailto:", "a">>
Tel == <<"tel:", "1">>
Javascript == <<"javascript:", "a">>
Anchor == <<"#", "a">>

English == [language |-> "english", importance_score |-> 9, category |-> Tourism]
French == [language |-> "french", importance_score |-> 9, category |-> Tourism]
Mixed == [language |-> "mixed", importance_score |-> 3, category |-> Gallery]
Unknown == [language |-> "unknown", importance_score |-> 3, category |-> News]

\* an object of the oracle whose language is a JSON list: it cannot be a
\* dictionary key (line 437 raises TypeError)
Unhashable == "[list]"
MalformedAnswer ==
    [language |-> Unhashable, importance_score |-> 9, category |-> Tourism]

\* what the server and the oracle can do with one request; oracle_failed is
\* a call that raises or a reply that is not a JSON object, oracle_malformed
\* is the object MalformedAnswer
ResponseKinds ==
    {"ok", "oracle_failed", "oracle_malformed", "empty_text", "not_html",
     "too_large", "too_large_stream", "request_error"}

\* A links to B and C, B links to A and D, C and D link nowhere
SiteABCD ==
    [base_url |-> Root,
     links    |-> [u \in {Root, PageB, PageC, PageD} |->
                     IF u = Root THEN {PageB, PageC}
                     ELSE IF u = PageB THEN {Root, PageD}
                     ELSE {}],
     answers  |-> [u \in {Root, PageB, PageC, PageD} |->
                     IF u = Root THEN English
                     ELSE IF u = PageB THEN French
                     ELSE IF u = PageC THEN Mixed
                     ELSE Unknown],
     disallow |-> {},
     robots   |-> {"loaded"},
     kinds    |-> ResponseKinds]

\* a site entered at /a/, with self-links, a cycle, a link to another host
\* and a mailto link; the server answers /a/ and /a alike, and every
\* request succeeds
SiteSlash ==
    [base_url |-> PageASlash,
     links    |-> [u \in {PageASlash, PageA, PageB, PageC, PageD, PageE} |->
                     IF u \in {PageASlash, PageA} THEN {PageASlash, PageB, PageC}
                     ELSE IF u = PageB THEN {PageB, PageA, PageD}
                     ELSE IF u = PageC THEN {PageE, OtherHost, MailTo}
                     ELSE IF u = PageD THEN {PageB}
                     ELSE {}],
     answers  |-> [u \in {PageASlash, PageA, PageB, PageC, PageD, PageE} |->
                     IF u \in {PageASlash, PageA} THEN English
                     ELSE IF u = PageB THEN Mixed
                     ELSE Unknown],
     disallow |-> {},
     robots   |-> {"loaded"},
     kinds    |-> {"ok"}]

\* a site whose robots.txt disallows /b and may be unreadable; /c links to
\* itself and back to / and /b; a request succeeds, fails or brings too
\* large a body
SiteRobots ==
    [base_url |-> Root,
     links    |-> [u \in {Root, PageB, PageC} |->
                     IF u = Root THEN {PageB, PageC}
                     ELSE IF u = PageC THEN {PageC, Root, PageB}
                     ELSE {Root}],
     answers  |-> [u \in {Root, PageB, PageC} |-> English],
     disallow |-> {PageB},
     robots   |-> {"loaded", Null},
     kinds    |-> {"ok", "request_error", "too_large_stream"}]

\* a site whose robots.txt disallows /b: /d is linked from /b and, three
\* links from the root, from /e, which also links to /a; /d has a tel, a
\* javascript and an anchor href
SiteDetour ==
    [base_url |-> Root,
     links    |-> [u \in {Root, PageA, PageB, PageC, PageD, PageE} |->
                     IF u = Root THEN {PageB, PageC}
                     ELSE IF u = PageB THEN {PageD}
                     ELSE IF u = PageC THEN {PageE}
                     ELSE IF u = PageE THEN {PageA, PageD}
                     ELSE IF u = PageD THEN {Tel, Javascript, Anchor}
                     ELSE {}],
     answers  |-> [u \in {Root, PageA, PageB, PageC, PageD, PageE} |-> English],
     disallow |-> {PageB},
     robots   |-> {"loaded"},
     kinds    |-> {"ok"}]

Sites == <<SiteABCD, SiteSlash, SiteRobots, SiteDetour>>

base_url == Sites[site].base_url

\* self.domain, line 67
domain == urlparse(base_url).netloc

HrefsOf(url) ==
    IF url \in DOMAIN Sites[site].links THEN Sites[site].links[url] ELSE {}

(***************************************************************************)
(* AIWebScraper.can_fetch, get_page_content, extract_links                 *)
(***************************************************************************)
\* a check that fails closed
can_fetch_closed(url) ==
    IF robot_parser = Null THEN FALSE ELSE url \notin Sites[site].disallow

\* lines 244-253: without a parser every URL may be fetched
can_fetch(url) ==
    IF robot_parser = Null THEN TRUE ELSE url \notin Sites[site].disallow

\* a response that uses up one of the faults of the run
IsFault(kind) == kind # "ok"

\* a fetch that does not record a request error
get_page_content_error_unrecorded(url, kind) ==
    IF ~can_fetch(url)
    THEN [result |-> FALSE, kind |-> "robots", content |-> "", soup |-> {},
          ai_analysis |-> Analysis(url, DefaultAnswer), failed |-> FALSE]
    ELSE IF kind \in {"not_html", "too_large", "too_large_stream", "request_error"}
    THEN [result |-> FALSE, kind |-> kind, content |-> "", soup |-> {},
          ai_analysis |-> Analysis(url, DefaultAnswer), failed |-> FALSE]
    ELSE [result |-> TRUE, kind |-> kind,
          content |-> IF kind = "empty_text" THEN "" ELSE "text",
          soup |-> HrefsOf(url),
          ai_analysis |-> IF kind = "ok" /\ url \in DOMAIN Sites[site].answers
                          THEN Analysis(url, Sites[site].answers[url])
                          ELSE IF kind = "oracle_malformed"
                          THEN Analysis(url, MalformedAnswer)
                          ELSE Analysis(url, DefaultAnswer),
          failed |-> FALSE]

\* a fetch that records every skipped URL as failed
get_page_content_skips_fail(url, kind) ==
    IF ~can_fetch(url)
    THEN [result |-> FALSE, kind |-> "robots", content |-> "", soup |-> {},
          ai_analysis |-> Analysis(url, DefaultAnswer), failed |-> TRUE]
    ELSE IF kind \in {"not_html", "too_large", "too_large_stream", "request_error"}
    THEN [result |-> FALSE, kind |-> kind, content |-> "", soup |-> {},
          ai_analysis |-> Analysis(url, DefaultAnswer), failed |-> TRUE]
    ELSE [result |-> TRUE, kind |-> kind,
          content |-> IF kind = "empty_text" THEN "" ELSE "text",
          soup |-> HrefsOf(url),
          ai_analysis |-> IF kind = "ok" /\ url \in DOMAIN Sites[site].answers
                          THEN Analysis(url, Sites[site].answers[url])
                          ELSE IF kind = "oracle_malformed"
                          THEN Analysis(url, MalformedAnswer)
                          ELSE Analysis(url, DefaultAnswer),
          failed |-> FALSE]

\* a fetch that gives a page without text some text
get_page_content_empty_counts(url, kind) ==
    IF ~can_fetch(url)
    THEN [result |-> FALSE, kind |-> "robots", content |-> "", soup |-> {},
          ai_analysis |-> Analysis(url, DefaultAnswer), failed |-> FALSE]
    ELSE IF kind \in {"not_html", "too_large", "too_large_stream"}
    THEN [result |-> FALSE, kind |-> kind, content |-> "", soup |-> {},
          ai_analysis |-> Analysis(url, DefaultAnswer), failed |-> FALSE]
    ELSE IF kind = "request_error"
    THEN [result |-> FALSE, kind |-> kind, content |-> "", soup |-> {},
          ai_analysis |-> Analysis(url, DefaultAnswer), failed |-> TRUE]
    ELSE [result |-> TRUE, kind |-> kind,
          content |-> "text",
          soup |-> HrefsOf(url),
          ai_analysis |-> IF kind = "ok" /\ url \in DOMAIN Sites[site].answers
                          THEN Analysis(url, Sites[site].answers[url])
                          ELSE IF kind = "oracle_malformed"
                          THEN Analysis(url, MalformedAnswer)
                          ELSE Analysis(url, DefaultAnswer),
          failed |-> FALSE]

\* lines 293-359: the triple get_page_content returns for a response;
\* soup is the set of hrefs of the page, failed says whether the URL went to
\* self.failed_urls
get_page_content(url, kind) ==
    IF ~can_fetch(url)
    THEN [result |-> FALSE, kind |-> "robots", content |-> "", soup |-> {},
          ai_analysis |-> Analysis(url, DefaultAnswer), failed |-> FALSE]
    ELSE IF kind \in {"not_html", "too_large", "too_large_stream"}
    THEN [result |-> FALSE, kind |-> kind, content |-> "", soup |-> {},
          ai_analysis |-> Analysis(url, DefaultAnswer), failed |-> FALSE]
    ELSE IF kind = "request_error"
    THEN [result |-> FALSE, kind |-> kind, content |-> "", soup |-> {},
          ai_analysis |-> Analysis(url, DefaultAnswer), failed |-> TRUE]
    ELSE [result |-> TRUE, kind |-> kind,
          content |-> IF kind = "empty_text" THEN "" ELSE "text",
          soup |-> HrefsOf(url),
          ai_analysis |-> IF kind = "ok" /\ url \in DOMAIN Sites[site].answers
                          THEN Analysis(url, Sites[site].answers[url])
                          ELSE IF kind = "oracle_malformed"
                          THEN Analysis(url, MalformedAnswer)
                          ELSE Analysis(url, DefaultAnswer),
          failed |-> FALSE]

\* an extraction that keeps the links to other hosts
extract_links_any_host(soup) ==
    {normalize_url(href) :
        href \in {h \in soup :
                    h[1] \notin {"mailto:", "tel:", "javascript:", "#"}}}

\* lines 361-384: the same-host hrefs, normalized, as a set
extract_links(soup) ==
    {normalize_url(href) :
        href \in {h \in soup :
                    /\ h[1] \notin {"mailto:", "tel:", "javascript:", "#"}
                    /\ urlparse(h).netloc = domain}}

\* the lists that list(set(links)) can be
ListsOf(links) ==
    {order \in [1..Cardinality(links) -> links] :
        \A i, j \in 1..Cardinality(links) : order[i] = order[j] => i = j}

(***************************************************************************)
(* AIWebScraper.scrape_website                                             *)
(***************************************************************************)
\* a loop that puts the new links at the head of the queue
RECURSIVE Enqueue_front(_, _, _)
Enqueue_front(queue, new_links, visited) ==
    IF new_links = <<>> THEN queue
    ELSE LET link == Head(new_links)
         IN  Enqueue_front(IF link \notin visited /\ link \notin Range(queue)
                           THEN <<link>> \o queue ELSE queue,
                           Tail(new_links), visited)

\* a loop that appends every link
RECURSIVE Enqueue_unchecked(_, _, _)
Enqueue_unchecked(queue, new_links, visited) ==
    IF new_links = <<>> THEN queue
    ELSE Enqueue_unchecked(Append(queue, Head(new_links)), Tail(new_links), visited)

\* lines 503-505
RECURSIVE Enqueue(_, _, _)
Enqueue(queue, new_links, visited) ==
    IF new_links = <<>> THEN queue
    ELSE LET link == Head(new_links)
         IN  Enqueue(IF link \notin visited /\ link \notin Range(queue)
                     THEN Append(queue, link) ELSE queue,
                     Tail(new_links), visited)

\* a loop that never finds a popped URL visited
AlreadyVisited_never(url, visited) == FALSE

\* line 484
AlreadyVisited(url, visited) == url \in visited

\* a resume that forgets the visited set
RestoredVisited_forgotten(progress) == {}

\* line 474
RestoredVisited(progress) == progress.visited_urls

\* a snapshot that leaves the queue out
save_progress_without_queue(visited, queue, scraped, content) ==
    [exists |-> TRUE, visited_urls |-> visited, urls_to_visit |-> <<>>,
     pages_scraped |-> scraped,
     multilingual_stats |-> [lang \in LanguageNames |-> Len(content[lang])]]

\* lines 544-556
save_progress(visited, queue, scraped, content) ==
    [exists |-> TRUE, visited_urls |-> visited, urls_to_visit |-> queue,
     pages_scraped |-> scraped,
     multilingual_stats |-> [lang \in LanguageNames |-> Len(content[lang])]]

\* the CrawlState of the running process: self.visited_urls, the queue and
\* the counter of scrape_website, self.failed_urls
CrawlState ==
    [tracked |-> TRUE, visited_urls |-> visited_urls,
     urls_to_visit |-> urls_to_visit, pages_scraped |-> pages_scraped,
     failed_urls |-> failed_urls]

\* the memory of the process is what its last _save_progress wrote
StoppedOnCheckpoint ==
    /\ progress_file.exists
    /\ progress_file.visited_urls = visited_urls
    /\ progress_file.urls_to_visit = urls_to_visit
    /\ progress_file.pages_scraped = pages_scraped

\* lines 482-485 on a CrawlState: the popped URL is dropped
Discard(state) ==
    IF ~state.tracked THEN state
    ELSE [state EXCEPT !.urls_to_visit = Tail(@)]

\* lines 482-510 on a CrawlState: one iteration on the head of its queue,
\* given what get_page_content returned and the order of the links
Iterate(state, page, new_links) ==
    IF ~state.tracked THEN state
    ELSE LET current_url == Head(state.urls_to_visit)
             success     == page.result /\ page.content # ""
         IN  [tracked       |-> TRUE,
              visited_urls  |-> state.visited_urls \cup {current_url},
              urls_to_visit |-> IF success
                                THEN Enqueue(Tail(state.urls_to_visit), new_links,
                                             state.visited_urls)
                                ELSE Tail(state.urls_to_visit),
              pages_scraped |-> IF success THEN state.pages_scraped + 1
                                ELSE state.pages_scraped,
              failed_urls   |-> IF page.failed
                                THEN Append(state.failed_urls, current_url)
                                ELSE state.failed_urls]

\* the deployment: a site and the arguments every run is started with
CrawlInit ==
    /\ site \in 1..Len(Sites)
    /\ max_pages \in {1, 3, MaxPages}
    /\ batch_size \in 1..MaxBatch
    /\ robot_parser = Null
    /\ visited_urls = {}
    /\ failed_urls = <<>>
    /\ urls_to_visit = <<>>
    /\ pages_scraped = 0
    /\ batch_count = 0
    /\ progress_file = NoProgress
    /\ summary_file = NoSummary
    /\ pc = "idle"
    /\ runs = 0
    /\ resumed = FALSE
    /\ loaded_progress = NoProgress
    /\ fetch_log = <<>>
    /\ skipped_pops = {}
    /\ sleeps = <<>>
    /\ faults = 0
    /\ progress_errors = 0
    /\ uninterrupted = NoReference
    /\ BucketsInit
    /\ has_reportlab = TRUE
    /\ NormIdle
    /\ OracleIdle

\* a process starts: __init__ (lines 66-129), then scrape_website up to its
\* loop (lines 460-479), which loads the progress file when there is one
Start ==
    /\ pc \in {"idle", "killed", "crashed"}
    /\ runs < MaxRuns
    /\ runs' = runs + 1
    /\ robot_parser' \in Sites[site].robots
    /\ failed_urls' = <<>>
    /\ multilingual_content' = [lang \in LanguageNames |-> <<>>]
    /\ batch_count' = 0
    /\ IF progress_file.exists
       THEN /\ visited_urls' = RestoredVisited(progress_file)
            /\ urls_to_visit' = progress_file.urls_to_visit
            /\ pages_scraped' = progress_file.pages_scraped
       ELSE /\ visited_urls' = {}
            /\ urls_to_visit' = <<base_url>>
            /\ pages_scraped' = 0
    /\ resumed' = progress_file.exists
    /\ loaded_progress' = progress_file
    /\ fetch_log' = <<>>
    /\ skipped_pops' = {}
    /\ sleeps' = <<>>
    /\ pc' = "loop"
    /\ UNCHANGED <<site, max_pages, batch_size, progress_file, summary_file, faults,
                   progress_errors, uninterrupted, saved_pages, txt_output, pdf_output, has_reportlab,
                   outputs_generated>>
    /\ UNCHANGED <<norm_vars, oracle_vars>>

\* a loop that only stops on an empty queue
LoopCondition_unbounded == urls_to_visit # <<>>

\* a loop that goes on while the budget is reached but not passed
LoopCondition_inclusive == urls_to_visit # <<>> /\ pages_scraped <= max_pages

\* line 481
LoopCondition == urls_to_visit # <<>> /\ pages_scraped < max_pages

\* a loop that puts a visited URL back at the end of the queue
SkipVisited_requeues ==
    /\ pc = "loop"
    /\ LoopCondition
    /\ AlreadyVisited(Head(urls_to_visit), visited_urls)
    /\ urls_to_visit' = Append(Tail(urls_to_visit), Head(urls_to_visit))
    /\ skipped_pops' = skipped_pops \cup {Head(urls_to_visit)}
    /\ uninterrupted' = uninterrupted
    /\ UNCHANGED <<site, max_pages, batch_size, sleeps, robot_parser, visited_urls,
                   failed_urls, pages_scraped, batch_count, progress_file,
                   summary_file, pc, runs, resumed, loaded_progress, fetch_log,
                   faults, progress_errors>>
    /\ UNCHANGED <<norm_vars, oracle_vars, doc_vars>>

\* lines 481-485: the popped URL is visited already
SkipVisited ==
    /\ pc = "loop"
    /\ LoopCondition
    /\ AlreadyVisited(Head(urls_to_visit), visited_urls)
    /\ urls_to_visit' = Tail(urls_to_visit)
    /\ skipped_pops' = skipped_pops \cup {Head(urls_to_visit)}
    /\ uninterrupted' = Discard(uninterrupted)
    /\ UNCHANGED <<site, max_pages, batch_size, sleeps, robot_parser, visited_urls,
                   failed_urls, pages_scraped, batch_count, progress_file,
                   summary_file, pc, runs, resumed, loaded_progress, fetch_log,
                   faults, progress_errors>>
    /\ UNCHANGED <<norm_vars, oracle_vars, doc_vars>>

\* self.delay as main sets it (delay=1.5), in milliseconds
Delay == 1500

\* the seconds an iteration takes from line 490 to line 513, in
\* milliseconds: nothing is requested for a URL robots.txt disallows, a
\* request that fails runs into its timeout of 10 seconds, /b is a slow
\* page
ResponseTime(url, kind) ==
    IF kind = "robots" THEN 0
    ELSE IF kind = "request_error" THEN 10000
    ELSE IF url = PageB THEN 4000
    ELSE 1000

Max(a, b) == IF a >= b THEN a ELSE b

\* a delay without the floor
AdaptiveDelay_unfloored(delay, response_time) == response_time \div 2

\* line 514: max(self.delay, response_time * 0.5)
AdaptiveDelay(delay, response_time) == Max(delay, response_time \div 2)

\* line 437: the language of the analysis is looked up in a dictionary
SavePageRaises(ai_analysis) == ai_analysis.language = Unhashable

\* lines 481-523: one iteration on a URL that is not visited yet
ProcessUrl ==
    /\ pc = "loop"
    /\ LoopCondition
    /\ ~AlreadyVisited(Head(urls_to_visit), visited_urls)
    /\ \E kind \in Sites[site].kinds :
        LET current_url == Head(urls_to_visit)
            page        == get_page_content(current_url, kind)
            success     == page.result /\ page.content # ""
        IN  /\ ~(success /\ SavePageRaises(page.ai_analysis))
            /\ (page.kind # "robots" /\ IsFault(kind)) => faults < MaxFaults
            /\ page.kind = "robots" => kind = "ok"
            /\ faults' = IF page.kind # "robots" /\ IsFault(kind)
                         THEN faults + 1 ELSE faults
            /\ fetch_log' = Append(fetch_log, [url |-> current_url, kind |-> page.kind])
            /\ failed_urls' = IF page.failed THEN Append(failed_urls, current_url)
                              ELSE failed_urls
            /\ IF success
               THEN /\ save_page_content(page.ai_analysis)
                    /\ \E new_links \in ListsOf(extract_links(page.soup)) :
                          /\ urls_to_visit' =
                                Enqueue(Tail(urls_to_visit), new_links, visited_urls)
                          /\ uninterrupted' = Iterate(uninterrupted, page, new_links)
                    /\ pages_scraped' = pages_scraped + 1
               ELSE /\ UNCHANGED <<saved_pages, multilingual_content>>
                    /\ urls_to_visit' = Tail(urls_to_visit)
                    /\ uninterrupted' = Iterate(uninterrupted, page, <<>>)
                    /\ pages_scraped' = pages_scraped
            /\ visited_urls' = visited_urls \cup {current_url}
            /\ sleeps' = Append(sleeps,
                    [response_time |-> ResponseTime(current_url, page.kind),
                     slept |-> AdaptiveDelay(Delay, ResponseTime(current_url, page.kind))])
            /\ IF batch_count + 1 >= batch_size
               THEN /\ progress_file' = save_progress(visited_urls', urls_to_visit',
                                                      pages_scraped', multilingual_content')
                    /\ batch_count' = 0
               ELSE /\ progress_file' = progress_file
                    /\ batch_count' = batch_count + 1
    /\ UNCHANGED <<site, max_pages, batch_size, robot_parser, summary_file, pc,
                   runs, resumed, loaded_progress, skipped_pops, progress_errors>>
    /\ UNCHANGED <<txt_output, pdf_output, has_reportlab, outputs_generated>>
    /\ UNCHANGED <<norm_vars, oracle_vars>>

\* lines 481-496 and 386-437: an iteration whose save_page_content raises;
\* the page file and its metadata are written, then the TypeError leaves
\* scrape_website, which has no handler, and the process ends
ProcessUrlRaises ==
    /\ pc = "loop"
    /\ LoopCondition
    /\ ~AlreadyVisited(Head(urls_to_visit), visited_urls)
    /\ \E kind \in Sites[site].kinds :
        LET current_url == Head(urls_to_visit)
            page        == get_page_content(current_url, kind)
            success     == page.result /\ page.content # ""
        IN  /\ success /\ SavePageRaises(page.ai_analysis)
            /\ faults < MaxFaults
            /\ faults' = faults + 1
            /\ fetch_log' = Append(fetch_log, [url |-> current_url, kind |-> page.kind])
            /\ saved_pages' = Append(saved_pages, page.ai_analysis)
    /\ pc' = "crashed"
    /\ robot_parser' = Null
    /\ visited_urls' = {}
    /\ failed_urls' = <<>>
    /\ urls_to_visit' = <<>>
    /\ pages_scraped' = 0
    /\ batch_count' = 0
    /\ multilingual_content' = [lang \in LanguageNames |-> <<>>]
    /\ uninterrupted' = NoReference
    /\ UNCHANGED <<site, max_pages, batch_size, sleeps, progress_file, summary_file, runs,
                   resumed, loaded_progress, skipped_pops, progress_errors>>
    /\ UNCHANGED <<txt_output, pdf_output, has_reportlab, outputs_generated>>
    /\ UNCHANGED <<norm_vars, oracle_vars>>

\* lines 481-521 and 544-556: an iteration whose periodic _save_progress
\* raises (open or json.dump, an OSError); nothing around the call handles
\* it, so the exception leaves scrape_website and the process ends with the
\* progress file as it was
ProcessUrlSaveRaises ==
    /\ pc = "loop"
    /\ LoopCondition
    /\ ~AlreadyVisited(Head(urls_to_visit), visited_urls)
    /\ batch_count + 1 >= batch_size
    /\ \E kind \in Sites[site].kinds :
        LET current_url == Head(urls_to_visit)
            page        == get_page_content(current_url, kind)
            success     == page.result /\ page.content # ""
            page_faults == IF page.kind # "robots" /\ IsFault(kind) THEN 1 ELSE 0
        IN  /\ ~(success /\ SavePageRaises(page.ai_analysis))
            /\ page.kind = "robots" => kind = "ok"
            /\ faults + page_faults < MaxFaults
            /\ faults' = faults + page_faults + 1
            /\ fetch_log' = Append(fetch_log, [url |-> current_url, kind |-> page.kind])
            /\ failed_urls' = IF page.failed THEN Append(failed_urls, current_url)
                              ELSE failed_urls
            /\ IF success
               THEN /\ save_page_content(page.ai_analysis)
                    /\ \E new_links \in ListsOf(extract_links(page.soup)) :
                          urls_to_visit' =
                              Enqueue(Tail(urls_to_visit), new_links, visited_urls)
                    /\ pages_scraped' = pages_scraped + 1
               ELSE /\ UNCHANGED <<saved_pages, multilingual_content>>
                    /\ urls_to_visit' = Tail(urls_to_visit)
                    /\ pages_scraped' = pages_scraped
            /\ visited_urls' = visited_urls \cup {current_url}
            /\ sleeps' = Append(sleeps,
                    [response_time |-> ResponseTime(current_url, page.kind),
                     slept |-> AdaptiveDelay(Delay, ResponseTime(current_url, page.kind))])
    /\ batch_count' = batch_count + 1
    /\ progress_errors' = progress_errors + 1
    /\ pc' = "crashed"
    /\ uninterrupted' = NoReference
    /\ UNCHANGED <<site, max_pages, batch_size, robot_parser, progress_file,
                   summary_file, runs, resumed, loaded_progress, skipped_pops>>
    /\ UNCHANGED <<txt_output, pdf_output, has_reportlab, outputs_generated>>
    /\ UNCHANGED <<norm_vars, oracle_vars>>

\* an end of the loop that removes the progress file at once
FinalSave_removes ==
    /\ pc = "loop"
    /\ ~LoopCondition
    /\ progress_file' = NoProgress
    /\ pc' = "summary"
    /\ UNCHANGED <<site, max_pages, batch_size, sleeps, robot_parser, visited_urls,
                   failed_urls, urls_to_visit, pages_scraped, batch_count,
                   summary_file, runs, resumed, loaded_progress, fetch_log,
                   skipped_pops, faults, progress_errors, uninterrupted>>
    /\ UNCHANGED <<norm_vars, oracle_vars, doc_vars>>

\* lines 525-526: the loop is left and the final snapshot is written
FinalSave ==
    /\ pc = "loop"
    /\ ~LoopCondition
    /\ progress_file' = save_progress(visited_urls, urls_to_visit, pages_scraped,
                                      multilingual_content)
    /\ pc' = "summary"
    /\ UNCHANGED <<site, max_pages, batch_size, sleeps, robot_parser, visited_urls,
                   failed_urls, urls_to_visit, pages_scraped, batch_count,
                   summary_file, runs, resumed, loaded_progress, fetch_log,
                   skipped_pops, faults, progress_errors, uninterrupted>>
    /\ UNCHANGED <<norm_vars, oracle_vars, doc_vars>>

\* lines 525-526 and 544-556: the final _save_progress raises
FinalSaveRaises ==
    /\ pc = "loop"
    /\ ~LoopCondition
    /\ faults < MaxFaults
    /\ faults' = faults + 1
    /\ progress_errors' = progress_errors + 1
    /\ pc' = "crashed"
    /\ uninterrupted' = NoReference
    /\ UNCHANGED <<site, max_pages, batch_size, sleeps, robot_parser, visited_urls,
                   failed_urls, urls_to_visit, pages_scraped, batch_count,
                   progress_file, summary_file, runs, resumed, loaded_progress,
                   fetch_log, skipped_pops>>
    /\ UNCHANGED <<norm_vars, oracle_vars, doc_vars>>

\* a summary that reports the counter of scraped pages
SaveSummary_counts_scraped ==
    /\ pc = "summary"
    /\ summary_file' = [exists |-> TRUE,
                        total_pages_scraped |-> pages_scraped,
                        failed_urls |-> failed_urls,
                        scraped_urls |-> visited_urls]
    /\ pc' = "outputs"
    /\ UNCHANGED <<site, max_pages, batch_size, sleeps, robot_parser, visited_urls,
                   failed_urls, urls_to_visit, pages_scraped, batch_count,
                   progress_file, runs, resumed, loaded_progress, fetch_log,
                   skipped_pops, faults, progress_errors, uninterrupted>>
    /\ UNCHANGED <<norm_vars, oracle_vars, doc_vars>>

\* line 527 and lines 558-581
SaveSummary ==
    /\ pc = "summary"
    /\ summary_file' = [exists |-> TRUE,
                        total_pages_scraped |-> Cardinality(visited_urls),
                        failed_urls |-> failed_urls,
                        scraped_urls |-> visited_urls]
    /\ pc' = "outputs"
    /\ UNCHANGED <<site, max_pages, batch_size, sleeps, robot_parser, visited_urls,
                   failed_urls, urls_to_visit, pages_scraped, batch_count,
                   progress_file, runs, resumed, loaded_progress, fetch_log,
                   skipped_pops, faults, progress_errors, uninterrupted>>
    /\ UNCHANGED <<norm_vars, oracle_vars, doc_vars>>

\* lines 529-531
GenerateOutputs ==
    /\ pc = "outputs"
    /\ IF pages_scraped > 0
       THEN generate_multilingual_outputs
       ELSE UNCHANGED <<txt_output, pdf_output, outputs_generated>>
    /\ pc' = "cleanup"
    /\ UNCHANGED <<multilingual_content, saved_pages, has_reportlab>>
    /\ UNCHANGED <<site, max_pages, batch_size, sleeps, robot_parser, visited_urls,
                   failed_urls, urls_to_visit, pages_scraped, batch_count,
                   progress_file, summary_file, runs, resumed, loaded_progress,
                   fetch_log, skipped_pops, faults, progress_errors,
                   uninterrupted>>
    /\ UNCHANGED <<norm_vars, oracle_vars>>

\* lines 538-542: the progress file is removed and the run returns True
Cleanup ==
    /\ pc = "cleanup"
    /\ progress_file' = NoProgress
    /\ pc' = "done"
    /\ UNCHANGED <<site, max_pages, batch_size, sleeps, robot_parser, visited_urls,
                   failed_urls, urls_to_visit, pages_scraped, batch_count,
                   summary_file, runs, resumed, loaded_progress, fetch_log,
                   skipped_pops, faults, progress_errors, uninterrupted>>
    /\ UNCHANGED <<norm_vars, oracle_vars, doc_vars>>

\* the process is interrupted (KeyboardInterrupt, which no handler of
\* scrape_website catches, or a kill): nothing more is written, the files
\* stay and the memory of the process is gone
Interrupt ==
    /\ pc \in {"loop", "summary", "outputs", "cleanup"}
    /\ pc' = "killed"
    /\ robot_parser' = Null
    /\ visited_urls' = {}
    /\ failed_urls' = <<>>
    /\ urls_to_visit' = <<>>
    /\ pages_scraped' = 0
    /\ batch_count' = 0
    /\ multilingual_content' = [lang \in LanguageNames |-> <<>>]
    /\ uninterrupted' = IF StoppedOnCheckpoint THEN CrawlState ELSE NoReference
    /\ UNCHANGED <<site, max_pages, batch_size, sleeps, progress_file, summary_file, runs,
                   resumed, loaded_progress, fetch_log, skipped_pops, faults,
                   progress_errors>>
    /\ UNCHANGED <<saved_pages, txt_output, pdf_output, has_reportlab,
                   outputs_generated>>
    /\ UNCHANGED <<norm_vars, oracle_vars>>

Init == CrawlInit

Next ==
    \/ Start
    \/ SkipVisited
    \/ ProcessUrl
    \/ ProcessUrlRaises
    \/ ProcessUrlSaveRaises
    \/ FinalSave
    \/ FinalSaveRaises
    \/ SaveSummary
    \/ GenerateOutputs
    \/ Cleanup
    \/ Interrupt

Spec == Init /\ [][Next]_vars

(***************************************************************************)
(* The normalizer on drawn inputs                                          *)
(***************************************************************************)
RECURSIVE SeqsUpTo(_, _)
SeqsUpTo(S, n) ==
    IF n = 0 THEN {<<>>}
    ELSE LET shorter == SeqsUpTo(S, n - 1)
         IN  shorter \cup {Append(s, c) : s \in shorter, c \in S}

\* paths: empty, or starting with '/'
PathInputs ==
    {<<>>} \cup {<<"/">> \o p : p \in SeqsUpTo({"/", "a"}, MaxPathLen - 1)}

\* query strings made of arbitrary characters
RawQueries == SeqsUpTo({"a", "=", "&", "/"}, MaxQueryLen)

\* query strings made of key=value pairs
PairPieces == {<<"a", "=", "1">>, <<"a", "=", "2">>, <<"b", "=", "1">>}
PairQueries == {Join(ps, "&") : ps \in SeqsUpTo(PairPieces, MaxPairs)}

QueryInputs == RawQueries \cup PairQueries

FragmentInputs == {<<>>, <<"#", "a">>}

MakeUrl(path, hasQuery, query, fragment) ==
    UrlPrefix \o path \o (IF hasQuery THEN <<"?">> \o query ELSE <<>>) \o fragment

Orderings(n) ==
    {p \in [1..n -> 1..n] : \A i, j \in 1..n : p[i] = p[j] => i = j}

\* the query strings that hold the pieces of query in another order
Reordered(query) ==
    LET pieces == Split(query, "&")
    IN  {Join([i \in 1..Len(pieces) |-> pieces[p[i]]], "&") :
            p \in Orderings(Len(pieces))}

NormInit ==
    /\ \E path \in PathInputs, hasQuery \in BOOLEAN, query \in QueryInputs,
          fragment \in FragmentInputs :
          /\ hasQuery \/ query = <<>>
          /\ url_a = MakeUrl(path, hasQuery, query, fragment)
          /\ \E other \in Reordered(query) :
                url_b = MakeUrl(path, hasQuery, other, fragment)
          /\ url_s = MakeUrl(path \o <<"/">>, hasQuery, query, fragment)
    /\ norm_a = <<>>
    /\ norm_b = <<>>
    /\ norm_s = <<>>
    /\ renorm_a = <<>>
    /\ norm_pc = "init"
    /\ OracleIdle
    /\ BucketsInit
    /\ has_reportlab = TRUE
    /\ CrawlIdle

Normalize ==
    /\ norm_pc = "init"
    /\ norm_a' = normalize_url(url_a)
    /\ norm_b' = normalize_url(url_b)
    /\ norm_s' = normalize_url(url_s)
    /\ norm_pc' = "normalized"
    /\ UNCHANGED <<url_a, url_b, url_s, renorm_a>>
    /\ UNCHANGED <<oracle_vars, doc_vars, crawl_vars>>

Renormalize ==
    /\ norm_pc = "normalized"
    /\ renorm_a' = normalize_url(norm_a)
    /\ norm_pc' = "renormalized"
    /\ UNCHANGED <<url_a, url_b, url_s, norm_a, norm_b, norm_s>>
    /\ UNCHANGED <<oracle_vars, doc_vars, crawl_vars>>

NormNext == Normalize \/ Renormalize

SpecNorm == NormInit /\ [][NormNext]_vars

(***************************************************************************)
(* The oracle on drawn texts                                               *)
(***************************************************************************)
\* a text of n characters
Text(n) == [i \in 1..n |-> Letters[(i % 26) + 1]]

OracleInit ==
    /\ \E n \in 0..MaxTextLen : oracle_content = Text(n)
    /\ openai_client \in {"client", Null}
    /\ oracle_reply \in OracleReplies
    /\ openai_client = Null => oracle_reply = NoReply
    /\ oracle_analysis = NoAnalysis
    /\ oracle_pc = "init"
    /\ NormIdle
    /\ BucketsInit
    /\ has_reportlab = TRUE
    /\ CrawlIdle

Analyze ==
    /\ oracle_pc = "init"
    /\ oracle_analysis' =
          analyze_content_with_ai(oracle_content, openai_client, oracle_reply)
    /\ oracle_pc' = "analyzed"
    /\ UNCHANGED <<oracle_content, openai_client, oracle_reply>>
    /\ UNCHANGED <<norm_vars, doc_vars, crawl_vars>>

OracleNext == Analyze

SpecOracle == OracleInit /\ [][OracleNext]_vars

(***************************************************************************)
(* Properties of the normalizer                                            *)
(***************************************************************************)
QueryPieces(url) == Split(urlparse(url).query, "&")

\* u and v have the same scheme, host and path, and the query of v holds
\* the '&'-separated pieces of the query of u in some order
DifferOnlyInQueryOrder(u, v) ==
    /\ urlparse(u).scheme = urlparse(v).scheme
    /\ urlparse(u).netloc = urlparse(v).netloc
    /\ urlparse(u).path = urlparse(v).path
    /\ Len(QueryPieces(u)) = Len(QueryPieces(v))
    /\ \E p \in Orderings(Len(QueryPieces(u))) :
          \A i \in 1..Len(QueryPieces(u)) : QueryPieces(v)[i] = QueryPieces(u)[p[i]]

\* the values a query string gives to a key, in order of appearance
ValuesOfKey(url, key) ==
    LET mine == SelectSeq(parse_qsl(urlparse(url).query), LAMBDA p : p.name = key)
    IN  [i \in 1..Len(mine) |-> mine[i].value]

QueryKeys(url) ==
    {parse_qsl(urlparse(url).query)[i].name :
        i \in 1..Len(parse_qsl(urlparse(url).query))}

SameValueOrderPerKey(u, v) ==
    \A key \in QueryKeys(u) \cup QueryKeys(v) : ValuesOfKey(u, key) = ValuesOfKey(v, key)

\* C9: normalization is idempotent, normalize_url(normalize_url(u)) =
\* normalize_url(u) for every URL u, also for a path that ends in more than
\* one '/' and for a URL with a query string.
C9_NormalizeIdempotent ==
    norm_pc = "renormalized" => renorm_a = norm_a

DifferOnlyInTrailingSlash ==
    /\ urlparse(url_a).path # <<>>
    /\ urlparse(url_a).path[Len(urlparse(url_a).path)] # "/"
    /\ urlparse(url_s).path = urlparse(url_a).path \o <<"/">>
    /\ urlparse(url_s).query = urlparse(url_a).query

\* C11: two URLs that differ only in a trailing slash of the path normalize
\* to the same string, with and without a query string (/a/ and /a,
\* /a/?b=1 and /a?b=1).
C11_TrailingSlashIrrelevant ==
    (norm_pc = "normalized" /\ DifferOnlyInTrailingSlash) => norm_s = norm_a

(***************************************************************************)
(* Properties of the oracle                                                *)
(***************************************************************************)
OracleFailed ==
    openai_client = Null \/ oracle_reply.kind \in {"raises", "unparseable", "not_object"}

\* C12: when the oracle is absent or its call fails, the analysis has
\* importance_score 5, category "general", language "unknown", no keywords,
\* and a summary that is the first 200 characters of the text followed by
\* "..." when the text is longer than 200 characters, and the text itself
\* otherwise.
C12_DefaultAnalysisOnFailure ==
    (oracle_pc = "analyzed" /\ OracleFailed) =>
        /\ oracle_analysis.importance_score = 5
        /\ oracle_analysis.category = General
        /\ oracle_analysis.language = "unknown"
        /\ oracle_analysis.keywords = <<>>
        /\ IF Len(oracle_content) > 200
           THEN /\ Len(oracle_analysis.summary) = 203
                /\ SubSeq(oracle_analysis.summary, 1, 200) = SubSeq(oracle_content, 1, 200)
                /\ SubSeq(oracle_analysis.summary, 201, 203) = <<".", ".", ".">>
           ELSE oracle_analysis.summary = oracle_content

\* C12 witness: the call raised on a text of more than 200 characters and
\* the summary was cut.
C12_Witness ==
    /\ oracle_pc = "analyzed"
    /\ openai_client = "client"
    /\ oracle_reply.kind = "raises"
    /\ Len(oracle_content) > 200
    /\ Len(oracle_analysis.summary) = 203
    /\ oracle_analysis.summary # oracle_content

(***************************************************************************)
(* Properties of the buckets and the documents                             *)
(***************************************************************************)
BucketsHolding(item) ==
    {lang \in LanguageNames : item \in Range(multilingual_content[lang])}

\* C6: a filed record whose language is english, french or portuguese is
\* appended to that bucket only, a mixed record to all three buckets, a
\* record of unknown or any other language to none; so every bucket holds,
\* in filing order, exactly the records of its language and the mixed ones,
\* and every record is in 0, 1 or 3 buckets according to its language.
C6_FiledByLanguage ==
    /\ \A lang \in LanguageNames :
          multilingual_content[lang] =
              SelectSeq(saved_pages, LAMBDA item : item.language \in {lang, "mixed"})
    /\ \A item \in Range(saved_pages) :
          BucketsHolding(item) =
              IF item.language \in LanguageNames THEN {item.language}
              ELSE IF item.language = "mixed" THEN LanguageNames
              ELSE {}

\* C6 witness: a french, a mixed and an unrecognized record have been filed.
C6_Witness ==
    /\ \E item \in Range(saved_pages) :
          item.language = "french" /\ BucketsHolding(item) = {"french"}
    /\ \E item \in Range(saved_pages) :
          item.language = "mixed" /\ BucketsHolding(item) = LanguageNames
    /\ \E item \in Range(saved_pages) :
          item.language \in {"unknown", "german", Null} /\ BucketsHolding(item) = {}

\* the record of a bucket that a section of its document shows
ItemOfSection(lang, section) ==
    CHOOSE item \in Range(multilingual_content[lang]) : item.url = section.url

\* the sections of doc are the records of the bucket of lang, every record
\* once, ordered by (importance score desc, category desc), and the table of
\* contents lists them in the same order
OrderedDocument(lang, doc) ==
    /\ doc.exists
    /\ Len(doc.sections) = Len(multilingual_content[lang])
    /\ {doc.sections[i].url : i \in 1..Len(doc.sections)} =
          {item.url : item \in Range(multilingual_content[lang])}
    /\ \A i, j \in 1..Len(doc.sections) :
          LET a == ItemOfSection(lang, doc.sections[i])
              b == ItemOfSection(lang, doc.sections[j])
          IN  /\ doc.sections[i].score > doc.sections[j].score => i < j
              /\ (/\ doc.sections[i].score = doc.sections[j].score
                  /\ a.category # NoCategory
                  /\ b.category # NoCategory
                  /\ StrLess(b.category, a.category)) => i < j
    /\ Len(doc.toc) = Len(doc.sections)
    /\ \A i \in 1..Len(doc.sections) :
          /\ doc.toc[i].title = doc.sections[i].url
          /\ doc.toc[i].score = doc.sections[i].score
          /\ doc.toc[i].category = doc.sections[i].category

Reorder(seq, p) == [i \in 1..Len(seq) |-> seq[p[i]]]

\* no two records of the bucket have the same score and the same category
DistinctSortKeys(bucket) ==
    \A i, j \in 1..Len(bucket) : i # j => SortKey(bucket[i]) # SortKey(bucket[j])

NoDuplicates(seq) == \A i, j \in 1..Len(seq) : seq[i] = seq[j] => i = j

\* the URLs an iteration appended to the pending queue
Appended == SubSeq(urls_to_visit', Len(urls_to_visit), Len(urls_to_visit'))

Fetched == {fetch_log[i].url : i \in 1..Len(fetch_log)}

FetchedAs(kind) == {fetch_log[i].url : i \in {j \in 1..Len(fetch_log) : fetch_log[j].kind = kind}}

\* C1: in a run started without a checkpoint the pending queue never holds
\* a URL twice, and the link-enqueue step never appends a URL that is in
\* visited_urls.
C1_QueueHasNoDuplicates ==
    /\ [](~resumed => NoDuplicates(urls_to_visit))
    /\ [][(~resumed /\ pc = "loop" /\ pc' = "loop"
             /\ Len(urls_to_visit') >= Len(urls_to_visit))
            => \A u \in Range(Appended) : u \notin visited_urls]_vars

\* C1 witness: in a fresh run of the site A, B, C, D page B, which links
\* back to the visited page A, has been scraped; A was not appended and the
\* new page D was.
C1_Witness ==
    /\ ~resumed
    /\ site = 1
    /\ pc = "loop"
    /\ PageB \in FetchedAs("ok")
    /\ Root \in visited_urls
    /\ Root \notin Range(urls_to_visit)
    /\ PageD \in Range(urls_to_visit)

\* C2: within one run get_page_content is called at most once for a URL,
\* whatever the first call's outcome and whatever the links of the site.
C2_FetchedAtMostOnce ==
    \A i, j \in 1..Len(fetch_log) : fetch_log[i].url = fetch_log[j].url => i = j

\* C2 witness: a run has ended in which a request failed, a page that links
\* to itself was scraped, and that page was popped again and discarded.
C2_Witness ==
    /\ pc = "done"
    /\ FetchedAs("request_error") # {}
    /\ \E u \in FetchedAs("ok") : u \in HrefsOf(u) /\ u \in skipped_pops

\* C3: no two different entries of visited_urls and the pending queue, the
\* seeded base URL included, have the same normalize_url value.
C3_OneEntryPerNormalizedUrl ==
    \A u, v \in visited_urls \cup Range(urls_to_visit) :
        normalize_url(u) = normalize_url(v) => u = v

\* C4: a run resumed from a checkpoint never calls get_page_content on a URL
\* of the checkpoint's visited_urls, also when the URL is in the restored
\* urls_to_visit or is found again as a link.
C4_ResumeDoesNotRevisit ==
    resumed => Fetched \cap loaded_progress.visited_urls = {}

\* C4 witness: a run resumed from a checkpoint with pages_scraped = 5 whose
\* urls_to_visit held a visited URL; it has discarded that URL, scraped a
\* page that links to a visited page, and ended.
C4_Witness ==
    /\ resumed
    /\ pc = "done"
    /\ loaded_progress.pages_scraped = 5
    /\ loaded_progress.urls_to_visit # <<>>
    /\ Range(loaded_progress.urls_to_visit) \cap loaded_progress.visited_urls # {}
    /\ skipped_pops \cap loaded_progress.visited_urls # {}
    /\ \E u \in FetchedAs("ok") :
          extract_links(HrefsOf(u)) \cap loaded_progress.visited_urls # {}

\* C5: a run that is interrupted after its loop has started and before it
\* has completed leaves a checkpoint file, also when the interruption comes
\* before the first batch of batch_size iterations has finished.
C5_InterruptLeavesCheckpoint ==
    pc = "killed" => progress_file.exists

\* the kinds of response in which the page was fetched and the oracle failed
OracleFailureKinds == {"oracle_failed", "oracle_malformed"}

\* an iteration of the loop has called get_page_content with this outcome
IterationOf(kinds) ==
    /\ pc = "loop"
    /\ Len(fetch_log') = Len(fetch_log) + 1
    /\ fetch_log'[Len(fetch_log')].kind \in kinds

\* C13: when a page is fetched and the oracle raises or returns unparseable
\* or malformed data, the iteration does not add the URL to failed_urls,
\* counts the page in pages_scraped and saves it with the default analysis.
C13_OracleFailureRecovered ==
    [][IterationOf(OracleFailureKinds) =>
          /\ failed_urls' = failed_urls
          /\ pages_scraped' = pages_scraped + 1
          /\ pc' = "loop"
          /\ saved_pages' =
                Append(saved_pages, Analysis(Head(urls_to_visit), DefaultAnswer))]_vars

\* the kinds of response that are soft skips
SoftSkipKinds == {"robots", "not_html", "too_large", "too_large_stream"}

\* C14: an iteration that ends in a soft skip (robots disallow, content type
\* that is not HTML, declared length over the maximum, body over the maximum
\* during transfer) leaves pages_scraped, failed_urls and every bucket
\* unchanged, writes no page record, enqueues no link and adds the URL to
\* visited_urls.
C14_SoftSkipCountsNowhere ==
    [][IterationOf(SoftSkipKinds) =>
          /\ pages_scraped' = pages_scraped
          /\ failed_urls' = failed_urls
          /\ multilingual_content' = multilingual_content
          /\ saved_pages' = saved_pages
          /\ urls_to_visit' = Tail(urls_to_visit)
          /\ visited_urls' = visited_urls \cup {Head(urls_to_visit)}]_vars

\* C14 witness: a run has ended that skipped one URL for robots.txt and one
\* whose body grew over the maximum during transfer; both are visited,
\* neither is counted or failed.
C14_Witness ==
    /\ pc = "done"
    /\ FetchedAs("robots") # {}
    /\ FetchedAs("too_large_stream") # {}
    /\ FetchedAs("robots") \cup FetchedAs("too_large_stream") \subseteq visited_urls
    /\ pages_scraped = Cardinality(FetchedAs("ok"))
    /\ pages_scraped = Len(saved_pages)
    /\ failed_urls = <<>>

\* a process is in scrape_website or has returned from it
Running == pc \in {"loop", "summary", "outputs", "cleanup", "done"}

\* C15: a request that fails puts its URL in failed_urls once and in
\* visited_urls, leaves pages_scraped as it is and the run in its loop
\* (unless the checkpoint of that iteration cannot be written), and the URL
\* is not fetched again in the run.
C15_FetchFailureCollected ==
    /\ [][IterationOf({"request_error"}) =>
            /\ failed_urls' = Append(failed_urls, Head(urls_to_visit))
            /\ visited_urls' = visited_urls \cup {Head(urls_to_visit)}
            /\ pages_scraped' = pages_scraped
            /\ urls_to_visit' = Tail(urls_to_visit)
            /\ progress_errors' = progress_errors => pc' = "loop"]_vars
    /\ [](Running =>
            \A u \in FetchedAs("request_error") :
                /\ Count(failed_urls, u) = 1
                /\ u \in visited_urls
                /\ Cardinality({i \in 1..Len(fetch_log) : fetch_log[i].url = u}) = 1)

\* C15 witness: a run has ended in which a request failed, the failed URL
\* was found again as a link of a page scraped later, and it is the one
\* entry of failed_urls.
C15_Witness ==
    /\ pc = "done"
    /\ \E i, j \in 1..Len(fetch_log) :
          /\ i < j
          /\ fetch_log[i].kind = "request_error"
          /\ fetch_log[j].kind = "ok"
          /\ fetch_log[i].url \in extract_links(HrefsOf(fetch_log[j].url))
          /\ failed_urls = <<fetch_log[i].url>>
          /\ fetch_log[i].url \in visited_urls

\* a fresh run of the site A, B, C, D with max_pages = 3 in which every
\* fetch so far has succeeded
ScenarioABCD ==
    /\ site = 1
    /\ max_pages = 3
    /\ Running
    /\ ~resumed
    /\ \A i \in 1..Len(fetch_log) : fetch_log[i].kind = "ok"

\* C16: on the site A (links to B, C), B (links to A, D), C, D with
\* max_pages = 3 and every fetch succeeding, a fresh run started at A fetches
\* A first, never fetches D, and ends having scraped exactly the three
\* pages A, B, C with failed_urls empty.
C16_ScenarioABCD ==
    ScenarioABCD =>
        /\ Len(fetch_log) >= 1 => fetch_log[1].url = Root
        /\ PageD \notin Fetched
        /\ pc = "done" =>
              /\ pages_scraped = 3
              /\ Len(fetch_log) = 3
              /\ Fetched = {Root, PageB, PageC}
              /\ failed_urls = <<>>

\* C16 witness: the scenario has ended with the pages fetched in the order
\* A, C, B and D left in the queue.
C16_Witness ==
    /\ ScenarioABCD
    /\ pc = "done"
    /\ [i \in 1..Len(fetch_log) |-> fetch_log[i].url] = <<Root, PageC, PageB>>
    /\ urls_to_visit = <<PageD>>
    /\ pages_scraped = 3

\* C17: a run that has completed has written the summary and, when its
\* pages_scraped is positive (also when every page was classified unknown
\* and when the count came from a checkpoint), at least one per-language
\* document exists.
C17_CompletedRunHasOutputs ==
    pc = "done" =>
        /\ summary_file.exists
        /\ pages_scraped > 0 => \E lang \in LanguageNames : txt_output[lang].exists

\* C18: every iteration that calls get_page_content sleeps once before the
\* next one, so a throttle lies between any two consecutive fetches of a
\* run; the delay is max(self.delay, half of the iteration's measured
\* time) and so never below self.delay.
C18_ThrottleBetweenFetches ==
    Running =>
        /\ Len(sleeps) = Len(fetch_log)
        /\ \A i \in 1..Len(sleeps) :
              /\ sleeps[i].slept >= Delay
              /\ sleeps[i].slept >= sleeps[i].response_time \div 2
              /\ sleeps[i].slept \in {Delay, sleeps[i].response_time \div 2}

\* C18 witness: a run has slept the floor after a fast page and half of the
\* measured time after a slow one, and has fetched again after both.
C18_Witness ==
    /\ Running
    /\ \E i, j \in 1..Len(sleeps) :
          /\ i < Len(fetch_log)
          /\ j < Len(fetch_log)
          /\ sleeps[i].response_time < 2 * Delay
          /\ sleeps[i].slept = Delay
          /\ sleeps[j].response_time > 2 * Delay
          /\ sleeps[j].slept = sleeps[j].response_time \div 2
          /\ sleeps[j].slept > Delay

\* C19: in a run whose robots.txt could not be loaded can_fetch is true for
\* every URL and no URL is skipped for robots.txt; in a run whose robots.txt
\* was loaded a URL it disallows is never requested.
C19_RobotsFailOpen ==
    Running =>
        /\ robot_parser = Null =>
              /\ \A u \in DOMAIN Sites[site].links : can_fetch(u)
              /\ FetchedAs("robots") = {}
        /\ robot_parser # Null =>
              \A i \in 1..Len(fetch_log) :
                  fetch_log[i].url \in Sites[site].disallow => fetch_log[i].kind = "robots"

\* C19 witness: a run without robots.txt has ended and has scraped a page
\* that robots.txt disallows.
C19_Witness ==
    /\ pc = "done"
    /\ robot_parser = Null
    /\ Sites[site].disallow \cap FetchedAs("ok") # {}

\* the URLs a run has encountered: the seed and every link extracted from a
\* page it scraped
Encountered ==
    {base_url} \cup
    UNION {extract_links(HrefsOf(u)) : u \in FetchedAs("ok") \cup FetchedAs("oracle_failed")}

\* C20: no URL is processed twice in a run, and when a fresh run has
\* completed the size of visited_urls is the number of distinct normalized
\* URLs it encountered, for every site and every max_pages.
C20_VisitedIsEncountered ==
    /\ \A i, j \in 1..Len(fetch_log) : fetch_log[i].url = fetch_log[j].url => i = j
    /\ (pc = "done" /\ ~resumed) =>
          Cardinality(visited_urls) =
              Cardinality({normalize_url(u) : u \in Encountered})

(***************************************************************************)
(* The page budget, the checkpoint and the end of a run                    *)
(***************************************************************************)
\* a step of the loop that pops the head of the queue (line 482)
Popped ==
    /\ pc = "loop"
    /\ \/ fetch_log' # fetch_log
       \/ pc' = "loop" /\ urls_to_visit' # urls_to_visit

\* C21: in a run started without a checkpoint pages_scraped never exceeds
\* max_pages; a URL is popped only while the queue is not empty and
\* pages_scraped is below max_pages; and the loop is left only when the
\* queue is empty or pages_scraped has reached max_pages.
C21_PageBudget ==
    /\ [](Running /\ ~resumed => pages_scraped <= max_pages)
    /\ [][Popped => urls_to_visit # <<>> /\ pages_scraped < max_pages]_vars
    /\ [][pc = "loop" /\ pc' = "summary" =>
            urls_to_visit = <<>> \/ pages_scraped >= max_pages]_vars

\* a fresh run that ended on its budget with URLs still pending
C21_Witness ==
    /\ pc = "done"
    /\ ~resumed
    /\ max_pages = 3
    /\ pages_scraped = max_pages
    /\ urls_to_visit # <<>>

\* C22: a run that was stopped right after a checkpoint and resumed from
\* that checkpoint completes with the visited_urls, pending queue,
\* pages_scraped and failed_urls that the run would have had without the
\* stop, the site answering and the links being ordered alike.
C22_ResumeEquivalent ==
    pc = "done" /\ resumed /\ uninterrupted.tracked =>
        /\ visited_urls = uninterrupted.visited_urls
        /\ urls_to_visit = uninterrupted.urls_to_visit
        /\ pages_scraped = uninterrupted.pages_scraped
        /\ failed_urls = uninterrupted.failed_urls

\* the process goes on by itself: it is neither killed nor ended by an
\* exception in this step
GoesOn == pc' \notin {"killed", "crashed"}

\* C23: a run that leaves the loop writes a final snapshot, then the
\* summary, then the multilingual outputs if pages_scraped > 0, then removes
\* the progress file; the progress file is there during the summary and the
\* outputs steps and is removed by no other step than the last one of a
\* completed run.
C23_EndOfRunOrder ==
    /\ [][pc = "loop" /\ pc' # "loop" /\ GoesOn =>
            /\ pc' = "summary"
            /\ progress_file' = save_progress(visited_urls, urls_to_visit,
                                              pages_scraped, multilingual_content)]_vars
    /\ [][pc = "summary" /\ GoesOn =>
            /\ pc' = "outputs"
            /\ summary_file'.exists
            /\ summary_file'.scraped_urls = visited_urls
            /\ progress_file' = progress_file]_vars
    /\ [][pc = "outputs" /\ GoesOn =>
            /\ pc' = "cleanup"
            /\ IF pages_scraped > 0 THEN outputs_generated'
               ELSE UNCHANGED <<txt_output, pdf_output, outputs_generated>>
            /\ UNCHANGED <<progress_file, summary_file>>]_vars
    /\ [][pc = "cleanup" /\ GoesOn =>
            /\ pc' = "done"
            /\ ~progress_file'.exists
            /\ UNCHANGED <<summary_file, txt_output, pdf_output>>]_vars
    /\ [][progress_file.exists /\ ~progress_file'.exists =>
            pc = "cleanup" /\ pc' = "done"]_vars
    /\ [](pc \in {"summary", "outputs", "cleanup"} => progress_file.exists)

\* a completed run that scraped pages: summary and documents are written
\* and the progress file is gone
C23_Witness ==
    /\ pc = "done"
    /\ pages_scraped > 0
    /\ summary_file.exists
    /\ summary_file.scraped_urls = visited_urls
    /\ \E lang \in LanguageNames : txt_output[lang] # NoDocument
    /\ ~progress_file.exists

\* the URLs processed since the progress file was last written, or since
\* the start when there is none: every processed URL is one more visited URL
ProcessedSinceSnapshot ==
    Cardinality(visited_urls) -
        (IF progress_file.exists THEN Cardinality(progress_file.visited_urls)
         ELSE 0)

\* C24: in every state of the running loop fewer than batch_size URLs have
\* been processed since the last snapshot (or since the start or resume),
\* and every snapshot that is written holds the visited_urls, urls_to_visit
\* and pages_scraped the controller has at the end of that step.
C24_CheckpointEveryBatch ==
    /\ [](pc = "loop" => ProcessedSinceSnapshot < batch_size)
    /\ [][progress_file'.exists /\ progress_file' # progress_file =>
            /\ progress_file'.visited_urls = visited_urls'
            /\ progress_file'.urls_to_visit = urls_to_visit'
            /\ progress_file'.pages_scraped = pages_scraped']_vars

\* a fresh run with batch_size 2 after its third iteration: one URL has
\* been processed since the snapshot of the second
C24_Witness ==
    /\ pc = "loop"
    /\ ~resumed
    /\ batch_size = 2
    /\ Len(fetch_log) = 3
    /\ progress_file.exists
    /\ ProcessedSinceSnapshot = 1
    /\ urls_to_visit # progress_file.urls_to_visit

\* C25: a _save_progress call that fails, in the loop or after it, does not
\* end the run: the process is in its loop or at its summary step afterwards.
C25_CheckpointFailureSurvived ==
    [][progress_errors' > progress_errors => pc' \in {"loop", "summary"}]_vars

(***************************************************************************)
(* The order of the crawl                                                  *)
(***************************************************************************)
\* the pages of the site and the URL the run is started with
Pages == DOMAIN Sites[site].links \cup {base_url}

\* the links extract_links finds on each page of the site
SiteLinks == [u \in Pages |-> extract_links(HrefsOf(u))]

\* the pages this run scraped: fetched with text, links extracted
Scraped == FetchedAs("ok") \cup FetchedAs("oracle_failed")

\* the links this run has extracted
ScrapedLinks == [u \in Pages |-> IF u \in Scraped THEN SiteLinks[u] ELSE {}]

\* breadth-first search: the pages reached from the URLs of frontier, each
\* with the number of links of a shortest path to it, frontier being n links
\* away and dist holding the pages nearer than that
RECURSIVE Distances(_, _, _, _)
Distances(links, frontier, n, dist) ==
    IF frontier = {} THEN dist
    ELSE LET reached == dist @@ [u \in frontier |-> n]
         IN  Distances(links,
                       UNION {links[u] : u \in frontier \cap DOMAIN links}
                           \ DOMAIN reached,
                       n + 1, reached)

\* the number of links from base_url to each page that links lead to
LinkDistance(links) == Distances(links, {base_url}, 0, <<>>)

\* the URLs this run requested, in order
Requested ==
    SelectSeq(fetch_log, LAMBDA entry : entry.kind # "robots")

\* the requests were made in the order of these distances
InOrderOf(distance) ==
    \A i, j \in 1..Len(Requested) :
        i < j => distance[Requested[i].url] <= distance[Requested[j].url]

\* C26 as stated: in a fresh run, a URL fetched before another one is at
\* most as many links away from the base URL, in the link graph of the
\* site, as the other one.
C26_BreadthFirstInSite ==
    ~resumed => InOrderOf(LinkDistance(SiteLinks))

\* C26, amended: the queue is served first-in first-out and links are only
\* appended at its tail; in a fresh run a URL fetched before another one is
\* at most as many links away from the base URL as the other one, counting
\* only the links of pages the run has scraped.
C26_BreadthFirstInDiscovery ==
    /\ [](~resumed => InOrderOf(LinkDistance(ScrapedLinks)))
    /\ [][Popped /\ pc' = "loop" =>
            /\ Len(urls_to_visit') >= Len(urls_to_visit) - 1
            /\ SubSeq(urls_to_visit', 1, Len(urls_to_visit) - 1)
                    = Tail(urls_to_visit)]_vars

\* a fresh run that got to /d, two links from the root through the page
\* robots.txt disallows, after /a, three links from the root
C26_Witness ==
    /\ pc = "done"
    /\ ~resumed
    /\ {PageA, PageD} \subseteq DOMAIN LinkDistance(SiteLinks)
    /\ LinkDistance(SiteLinks)[PageD] = 2
    /\ LinkDistance(SiteLinks)[PageA] = 3
    /\ \E i, j \in 1..Len(Requested) :
          i < j /\ Requested[i].url = PageA /\ Requested[j].url = PageD

\* the prefixes of the hrefs extract_links passes over (line 372)
SkippedPrefixes == {"mailto:", "tel:", "javascript:", "#"}

\* C27: in a fresh run every URL in the pending queue or in visited_urls has
\* the host of the base URL, and none of them comes from an href that
\* starts with mailto:, tel:, javascript: or #.
C27_SameHostOnly ==
    ~resumed =>
        \A u \in visited_urls \cup Range(urls_to_visit) :
            /\ u[1] \notin SkippedPrefixes
            /\ urlparse(u).netloc = domain
            /\ \A page \in Scraped :
                  \A h \in HrefsOf(page) : h[1] \in SkippedPrefixes => u # h

\* a fresh run that scraped a page with a link to another host and a mailto
\* link, and went on to the same-host link of that page
C27_Witness ==
    /\ pc = "done"
    /\ ~resumed
    /\ \E page \in Scraped :
          /\ OtherHost \in HrefsOf(page)
          /\ MailTo \in HrefsOf(page)
          /\ PageE \in HrefsOf(page)
          /\ PageE \in visited_urls

(***************************************************************************)
(* Termination: a process that is not killed and that no exception ends    *)
(***************************************************************************)
\* scrape_website is sequential code: whenever it has a next statement it
\* executes it (Fairness)
LiveNext ==
    \/ Start
    \/ SkipVisited
    \/ ProcessUrl
    \/ FinalSave
    \/ SaveSummary
    \/ GenerateOutputs
    \/ Cleanup

\* the steps of ProcessUrl, seen on visited_urls (line 510), and of
\* GenerateOutputs, seen on pc: in a behaviour of LiveNext no other step
\* changes these variables in this way
Processes ==
    /\ pc = "loop"
    /\ LoopCondition
    /\ ~AlreadyVisited(Head(urls_to_visit), visited_urls)
    /\ visited_urls' = visited_urls \cup {Head(urls_to_visit)}

Generates == pc = "outputs" /\ pc' = "cleanup"

Fairness ==
    /\ WF_vars(Start)
    /\ WF_vars(SkipVisited)
    /\ WF_visited_urls(Processes)
    /\ WF_vars(FinalSave)
    /\ WF_vars(SaveSummary)
    /\ WF_pc(Generates)
    /\ WF_vars(Cleanup)

SpecLive == Init /\ [][LiveNext]_vars /\ Fairness

\* C28: a fresh run that is in its loop eventually completes; every
\* iteration of the loop either drops a visited URL from the queue or adds
\* one URL to visited_urls.
C28_Terminates ==
    /\ (pc = "loop" /\ ~resumed) ~> (pc = "done")
    /\ [][Popped /\ pc' = "loop" =>
            \/ /\ Head(urls_to_visit) \in visited_urls
               /\ urls_to_visit' = Tail(urls_to_visit)
               /\ visited_urls' = visited_urls
            \/ /\ Head(urls_to_visit) \notin visited_urls
               /\ visited_urls' = visited_urls \cup {Head(urls_to_visit)}]_vars

\* a fresh run on a site with cycles that completed below its budget, its
\* queue empty, after dropping visited URLs from the queue
C28_Witness ==
    /\ pc = "done"
    /\ ~resumed
    /\ skipped_pops # {}
    /\ pages_scraped < max_pages
    /\ urls_to_visit = <<>>
    /\ Cardinality(visited_urls) >= 3

(***************************************************************************)
(* The counters of a run                                                   *)
(***************************************************************************)
\* the outcomes of an iteration that is neither a scraped page nor a
\* failure: the soft skips and the page without text
NonResultKinds == SoftSkipKinds \cup {"empty_text"}

\* the iterations of this run with one of these outcomes
Iterations(kinds) ==
    Cardinality({i \in 1..Len(fetch_log) : fetch_log[i].kind \in kinds})

C30_EmptyPageIsNonResult ==
    [][IterationOf({"empty_text"}) =>
            /\ pages_scraped' = pages_scraped
            /\ failed_urls' = failed_urls
            /\ multilingual_content' = multilingual_content
            /\ saved_pages' = saved_pages
            /\ urls_to_visit' = Tail(urls_to_visit)
            /\ visited_urls' = visited_urls \cup {Head(urls_to_visit)}]_vars

\* a completed fresh run in which /b had no text: /b is visited, and /d,
\* which only /b links to, was never queued although the budget was not
\* used up
C30_Witness ==
    /\ pc = "done"
    /\ ~resumed
    /\ PageB \in FetchedAs("empty_text")
    /\ PageB \in visited_urls
    /\ PageD \in HrefsOf(PageB)
    /\ PageD \notin visited_urls
    /\ pages_scraped < max_pages
    /\ failed_urls = <<>>

====
